---- MODULE Spec2Model ----
(***************************************************************************)
(* Model of the Mem0 HTTP facade (src/mem0_server.py).                     *)
(*                                                                         *)
(* The process holds one global, memory_instance, assigned by the startup  *)
(* half of lifespan() and cleared by the shutdown half.  Every handler is  *)
(* an `async def` without any await in its body, so a handler runs from    *)
(* its first line to its response without interleaving: one action per     *)
(* handler.  The external library (mem0 + Qdrant) is the environment: the  *)
(* outcome of each library call (return value or exception) is chosen      *)
(* nondeterministically.                                                   *)
(*                                                                         *)
(* Strings are modelled by their length (content, user_id, query); a user  *)
(* is identified by the length of its user_id.                             *)
(***************************************************************************)
EXTENDS Integers, Sequences, FiniteSets, TLC

\* ---- bounds of the model -------------------------------------------------
MaxStore == 2      \* records the external store holds at most
MaxBatch == 2      \* longest accepted batch that is enumerated item by item
MaxRaw   == 2      \* longest sequence the library returns from search()

\* ---- program constants ---------------------------------------------------
MaxContentLen == 10000   \* app/models/schemas.py: MemoryBase.content max_length
MaxUserIdLen  == 100     \* app/models/schemas.py: MemoryCreate.user_id max_length
MinItems      == 1       \* BatchMemoryInput.memories min_items
MaxItems      == 50      \* BatchMemoryInput.memories max_items
MinLimit      == 1       \* SearchInput.limit ge
MaxLimit      == 100     \* SearchInput.limit le
NoId          == 0       \* a falsy record id (None / ""), `if mem_id:` fails

VARIABLES
    phase,            \* "starting" | "serving" | "stopped" | "aborted"
    memory_instance,  \* the global: "None" or "Memory"
    initOutcome,      \* how initialize_memory() ended: "none"|"ok"|"error"|"import_error"
    writes,           \* number of assignments to memory_instance so far
    store,            \* the external store: sequence of [id, user]
    req,              \* the request handled last
    resp,             \* its response: [op, status, body]
    calls,            \* the library calls that request made, in order
    fetched           \* what the library returned to that request (search / get_all)

vars == <<phase, memory_instance, initOutcome, writes, store, req, resp, calls, fetched>>

\* ---- helpers ---------------------------------------------------------------
Min(a, b) == IF a < b THEN a ELSE b

NoRequest == [op |-> "none"]
NoResponse == [op |-> "none", status |-> 0, body |-> [none |-> TRUE]]

\* ---- request models (pydantic) ---------------------------------------------
ContentLens == {0, 1, MaxContentLen + 1}
UserIdLens  == {0, 1, MaxUserIdLen + 1}
Metadatas   == {"None", "m"}

\* bodies a client may post to /memory/add
MemoryInputs == [content : ContentLens, user_id : UserIdLens, metadata : Metadatas]

\* class MemoryInput: content min_length=1, user_id min_length=1
MemoryInput(m) == m.content >= 1 /\ m.user_id >= 1

\* `memory.metadata or {}`
MetadataOrEmpty(md) == IF md \in {"None", "{}"} THEN "{}" ELSE md

\* ---- the external library -------------------------------------------------
Users == {u \in UserIdLens : u >= 1}

UsedIds == {store[i].id : i \in 1..Len(store)}

\* the id the store assigns to the next record of st
NextId(st) == CHOOSE n \in 1..(Len(st) + 1) : n \notin {st[j].id : j \in 1..Len(st)}

\* what the external store may hold when the process starts: nothing, or a
\* record that carries no id
InitialStores == {<<>>, <<[id |-> NoId, user |-> 1]>>}

\* Memory.add: the store gains a record; a full store refuses
LibAdd(st, id, user) == Append(st, [id |-> id, user |-> user])

\* Memory.delete(memory_id)
LibDelete(st, id) == SelectSeq(st, LAMBDA r : r.id # id)

\* Memory.get_all(user_id=..., limit=...): the user's records, at most limit
LibGetAll(st, user, limit) ==
    LET mine == SelectSeq(st, LAMBDA r : r.user = user)
    IN SubSeq(mine, 1, Min(limit, Len(mine)))

\* ---- lifecycle -------------------------------------------------------------
Init ==
    /\ phase = "starting"
    /\ memory_instance = "None"
    /\ initOutcome = "none"
    /\ writes = 0
    /\ store \in InitialStores
    /\ req = NoRequest
    /\ resp = NoResponse
    /\ calls = <<>>
    /\ fetched = <<>>

InitOutcomes == {"ok", "error", "import_error"}

\* (variant: the global is assigned although construction failed)
initialize_memory_assigns_on_error(outcome, inst) ==
    IF outcome \in {"ok", "error"} THEN "Memory" ELSE inst

\* initialize_memory(): the value of the global after the call
initialize_memory(outcome, inst) == IF outcome = "ok" THEN "Memory" ELSE inst

\* (variant: the generic `except Exception` re-raises as well)
initialize_raises_any(outcome) == outcome \in {"error", "import_error"}

\* initialize_memory() re-raises ImportError only
initialize_raises(outcome) == outcome = "import_error"

\* lifespan(), startup half: initialize_memory() then yield
lifespan_startup(outcome) ==
    /\ phase = "starting"
    /\ initOutcome' = outcome
    /\ memory_instance' = initialize_memory(outcome, memory_instance)
    /\ writes' = IF memory_instance' # memory_instance THEN writes + 1 ELSE writes
    /\ phase' = IF initialize_raises(outcome) THEN "aborted" ELSE "serving"
    /\ UNCHANGED <<store, req, resp, calls, fetched>>

\* close_memory(): the value of the global after the call
close_memory(inst) == IF inst # "None" THEN "None" ELSE inst

\* lifespan(), shutdown half
lifespan_shutdown ==
    /\ phase = "serving"
    /\ memory_instance' = close_memory(memory_instance)
    /\ writes' = IF memory_instance # "None" THEN writes + 1 ELSE writes
    /\ phase' = "stopped"
    /\ UNCHANGED <<initOutcome, store, req, resp, calls, fetched>>

\* ---- handlers --------------------------------------------------------------
\* (variant: the availability test is inverted)
not_memory_instance_inverted == memory_instance # "None"

\* `if not memory_instance:`
not_memory_instance == memory_instance = "None"

Respond(op, st, body) == resp' = [op |-> op, status |-> st, body |-> body]

NoBody == [none |-> TRUE]

\* request validation failed: FastAPI answers 422, the handler never runs
Reject(op, r) ==
    /\ req' = r
    /\ Respond(op, 422, NoBody)
    /\ calls' = <<>>
    /\ fetched' = <<>>
    /\ UNCHANGED <<phase, memory_instance, initOutcome, writes, store>>

\* the 503 of every memory handler
Unavailable(op, r) ==
    /\ req' = r
    /\ Respond(op, 503, NoBody)
    /\ calls' = <<>>
    /\ fetched' = <<>>
    /\ UNCHANGED <<phase, memory_instance, initOutcome, writes, store>>

\* (variant: the status does not look at the global)
health_body_always_healthy(inst) == [status |-> "healthy", qdrant |-> "connected"]

\* GET /health
health_body(inst) ==
    [status |-> IF inst # "None" THEN "healthy" ELSE "degraded",
     qdrant |-> IF inst # "None" THEN "connected" ELSE "disconnected"]

health_check ==
    /\ phase = "serving"
    /\ req' = [op |-> "health"]
    /\ Respond("health", 200, health_body(memory_instance))
    /\ calls' = <<>>
    /\ fetched' = <<>>
    /\ UNCHANGED <<phase, memory_instance, initOutcome, writes, store>>

\* POST /memory/add
AddCall(memory, ok) ==
    [method |-> "add", content |-> memory.content, user_id |-> memory.user_id,
     metadata |-> MetadataOrEmpty(memory.metadata), ok |-> ok]

\* (variant: a failed library call is tried once more)
add_memory_retry(memory) ==
    LET r == [op |-> "add", memory |-> memory] IN
    /\ phase = "serving"
    /\ IF ~MemoryInput(memory) THEN Reject("add", r)
       ELSE IF not_memory_instance THEN Unavailable("add", r)
       ELSE /\ req' = r
            /\ fetched' = <<>>
            /\ \/ /\ Len(store) < MaxStore
                  /\ calls' = <<AddCall(memory, TRUE)>>
                  /\ store' = LibAdd(store, NextId(store), memory.user_id)
                  /\ Respond("add", 200, [success |-> TRUE, memory_id |-> NextId(store)])
               \/ /\ calls' = <<AddCall(memory, FALSE), AddCall(memory, FALSE)>>
                  /\ store' = store
                  /\ Respond("add", 500, NoBody)
            /\ UNCHANGED <<phase, memory_instance, initOutcome, writes>>

add_memory(memory) ==
    LET r == [op |-> "add", memory |-> memory] IN
    /\ phase = "serving"
    /\ IF ~MemoryInput(memory) THEN Reject("add", r)
       ELSE IF not_memory_instance THEN Unavailable("add", r)
       ELSE /\ req' = r
            /\ fetched' = <<>>
            /\ \/ /\ Len(store) < MaxStore      \* a full store refuses the record
                  /\ calls' = <<AddCall(memory, TRUE)>>
                  /\ store' = LibAdd(store, NextId(store), memory.user_id)
                  /\ Respond("add", 200, [success |-> TRUE, memory_id |-> NextId(store)])
               \/ /\ calls' = <<AddCall(memory, FALSE)>>
                  /\ store' = store
                  /\ Respond("add", 500, NoBody)
            /\ UNCHANGED <<phase, memory_instance, initOutcome, writes>>

\* POST /memory/search
Missing == "<missing>"

Limits == {MinLimit - 1, MinLimit, MaxLimit + 1}
QueryLens == {0, 1}
SearchInputs == [query : QueryLens, user_id : {0, 1}, limit : Limits]

\* class SearchInput: query min_length=1, user_id min_length=1, limit ge=1 le=100
SearchInput(s) ==
    /\ s.query >= 1
    /\ s.user_id >= 1
    /\ s.limit >= MinLimit
    /\ s.limit <= MaxLimit

\* the entries Memory.search may return: a mapping, an object (with or
\* without a `memory` attribute) or a bare string
RawResults ==
    {[shape |-> "dict",   memory |-> "a",     score |-> Missing, metadata |-> Missing],
     [shape |-> "object", memory |-> "a",     score |-> "0.5",   metadata |-> Missing],
     [shape |-> "object", memory |-> Missing, score |-> Missing, metadata |-> Missing],
     [shape |-> "str",    memory |-> "a",     score |-> Missing, metadata |-> Missing]}

RawSeqs == UNION {[1..n -> RawResults] : n \in 0..MaxRaw}

\* the body of `for r in results:` -- one SearchResult per raw entry
format_result(r) ==
    IF r.shape = "dict" \/ (r.shape = "object" /\ r.memory # Missing)
    THEN [memory   |-> IF r.memory = Missing THEN "" ELSE r.memory,
          score    |-> IF r.score = Missing THEN "0.0" ELSE r.score,
          metadata |-> IF r.metadata = Missing THEN "None" ELSE r.metadata]
    ELSE IF r.shape = "str"
    THEN [memory |-> r.memory, score |-> "1.0", metadata |-> "{}"]
    ELSE [memory |-> "", score |-> "1.0", metadata |-> "{}"]

SearchCall(search, ok) ==
    [method |-> "search", query |-> search.query, user_id |-> search.user_id,
     limit |-> search.limit, ok |-> ok]

search_memory(search) ==
    LET r == [op |-> "search", search |-> search] IN
    /\ phase = "serving"
    /\ IF ~SearchInput(search) THEN Reject("search", r)
       ELSE IF not_memory_instance THEN Unavailable("search", r)
       ELSE /\ req' = r
            /\ \/ \E results \in RawSeqs :
                    LET formatted_results ==
                            [i \in 1..Len(results) |-> format_result(results[i])]
                    IN /\ calls' = <<SearchCall(search, TRUE)>>
                       /\ fetched' = results
                       /\ Respond("search", 200,
                                  [success |-> TRUE, results |-> formatted_results,
                                   count |-> Len(formatted_results)])
               \/ /\ calls' = <<SearchCall(search, FALSE)>>
                  /\ fetched' = <<>>
                  /\ Respond("search", 500, NoBody)
            /\ UNCHANGED <<phase, memory_instance, initOutcome, writes, store>>

\* the shapes get_all may answer in, and the handlers' normalisation
Forms == {"list", "dict", "other"}

\* `raw["results"]` / `raw` / `[]`
memories_of(form, records) == IF form \in {"list", "dict"} THEN records ELSE <<>>

\* form: the shape the call answered in ("raised" when it raised)
GetAllCall(user_id, limit, form) ==
    [method |-> "get_all", user_id |-> user_id, limit |-> limit,
     form |-> form, ok |-> form # "raised"]

\* GET /memory/{user_id}?limit=
ListLimits == {1, MaxLimit}

get_memories(user_id, limit) ==
    LET r == [op |-> "list", user_id |-> user_id, limit |-> limit] IN
    /\ phase = "serving"
    /\ IF not_memory_instance THEN Unavailable("list", r)
       ELSE /\ req' = r
            /\ \/ \E form \in Forms :
                    LET raw == LibGetAll(store, user_id, limit)
                        memories == memories_of(form, raw)
                    IN /\ calls' = <<GetAllCall(user_id, limit, form)>>
                       /\ fetched' = raw
                       /\ Respond("list", 200,
                                  [success |-> TRUE, memories |-> memories,
                                   count |-> Len(memories)])
               \/ /\ calls' = <<GetAllCall(user_id, limit, "raised")>>
                  /\ fetched' = <<>>
                  /\ Respond("list", 500, NoBody)
            /\ UNCHANGED <<phase, memory_instance, initOutcome, writes, store>>

\* DELETE /memory/{memory_id}
MemoryIds == 1..MaxStore

DeleteCall(id, ok) == [method |-> "delete", memory_id |-> id, ok |-> ok]

delete_memory(memory_id) ==
    LET r == [op |-> "delete", memory_id |-> memory_id] IN
    /\ phase = "serving"
    /\ IF not_memory_instance THEN Unavailable("delete", r)
       ELSE /\ req' = r
            /\ fetched' = <<>>
            /\ \/ /\ calls' = <<DeleteCall(memory_id, TRUE)>>
                  /\ store' = LibDelete(store, memory_id)
                  /\ Respond("delete", 200, [success |-> TRUE])
               \/ /\ calls' = <<DeleteCall(memory_id, FALSE)>>
                  /\ store' = store
                  /\ Respond("delete", 500, NoBody)
            /\ UNCHANGED <<phase, memory_instance, initOutcome, writes>>

\* DELETE /memory/user/{user_id}
\* `mem.get("id") if isinstance(mem, dict) else getattr(mem, "id", None)`
\* (a mapping and an object are both read for their id)
mem_id(mem) == mem.id

RECURSIVE delete_each_counts_all(_, _, _, _, _)
\* (variant: `deleted_count += 1` sits outside `if mem_id:`)
delete_each_counts_all(memories, st, deleted_count, cs, failAt) ==
    IF memories = <<>>
    THEN [store |-> st, deleted_count |-> deleted_count, calls |-> cs, raised |-> FALSE]
    ELSE LET id == mem_id(Head(memories)) IN
         IF id = NoId
         THEN delete_each_counts_all(Tail(memories), st, deleted_count + 1, cs, failAt)
         ELSE IF deleted_count + 1 = failAt
         THEN [store |-> st, deleted_count |-> deleted_count,
               calls |-> Append(cs, DeleteCall(id, FALSE)), raised |-> TRUE]
         ELSE delete_each_counts_all(Tail(memories), LibDelete(st, id), deleted_count + 1,
                                     Append(cs, DeleteCall(id, TRUE)), failAt)

RECURSIVE delete_each_continues(_, _, _, _, _)
\* (variant: a failed delete is noted and the loop goes on to the next record)
delete_each_continues(memories, st, deleted_count, cs, failAt) ==
    IF memories = <<>>
    THEN [store |-> st, deleted_count |-> deleted_count, calls |-> cs, raised |-> FALSE]
    ELSE LET id == mem_id(Head(memories)) IN
         IF id = NoId
         THEN delete_each_continues(Tail(memories), st, deleted_count, cs, failAt)
         ELSE IF deleted_count + 1 = failAt
         THEN [delete_each_continues(Tail(memories), st, deleted_count,
                                     Append(cs, DeleteCall(id, FALSE)), 0)
                  EXCEPT !.raised = TRUE]
         ELSE delete_each_continues(Tail(memories), LibDelete(st, id), deleted_count + 1,
                                    Append(cs, DeleteCall(id, TRUE)), failAt)

RECURSIVE delete_each(_, _, _, _, _)
\* the loop `for mem in memories:`; the failAt-th library delete raises
\* (failAt = 0: none does), which leaves the loop
delete_each(memories, st, deleted_count, cs, failAt) ==
    IF memories = <<>>
    THEN [store |-> st, deleted_count |-> deleted_count, calls |-> cs, raised |-> FALSE]
    ELSE LET id == mem_id(Head(memories)) IN
         IF id = NoId
         THEN delete_each(Tail(memories), st, deleted_count, cs, failAt)
         ELSE IF deleted_count + 1 = failAt
         THEN [store |-> st, deleted_count |-> deleted_count,
               calls |-> Append(cs, DeleteCall(id, FALSE)), raised |-> TRUE]
         ELSE delete_each(Tail(memories), LibDelete(st, id), deleted_count + 1,
                          Append(cs, DeleteCall(id, TRUE)), failAt)

\* the handler passes no limit to get_all: the library applies its own
LibLimits == 1..MaxStore

delete_user_memories(user_id) ==
    LET r == [op |-> "delete_user", user_id |-> user_id] IN
    /\ phase = "serving"
    /\ IF not_memory_instance THEN Unavailable("delete_user", r)
       ELSE /\ req' = r
            /\ \/ \E form \in Forms, limit \in LibLimits, failAt \in 0..MaxStore :
                    LET raw == LibGetAll(store, user_id, limit)
                        memories == memories_of(form, raw)
                        out == delete_each(memories, store, 0,
                                           <<GetAllCall(user_id, limit, form)>>, failAt)
                    IN /\ fetched' = raw
                       /\ calls' = out.calls
                       /\ store' = out.store
                       /\ IF out.raised
                          THEN Respond("delete_user", 500, NoBody)
                          ELSE Respond("delete_user", 200,
                                       [success |-> TRUE,
                                        deleted_count |-> out.deleted_count])
               \/ \E limit \in LibLimits :
                    /\ fetched' = <<>>
                    /\ calls' = <<GetAllCall(user_id, limit, "raised")>>
                    /\ store' = store
                    /\ Respond("delete_user", 500, NoBody)
            /\ UNCHANGED <<phase, memory_instance, initOutcome, writes>>

\* POST /memory/batch/add
BatchItems ==
    {[content |-> 1, user_id |-> 1, metadata |-> "None"],
     [content |-> MaxContentLen + 1, user_id |-> MaxUserIdLen + 1, metadata |-> "m"],
     [content |-> 0, user_id |-> 1, metadata |-> "None"]}

\* bodies a client may post: every short batch, and an empty and a too long one
BatchInputs ==
    UNION {[1..n -> BatchItems] : n \in 0..MaxBatch}
    \cup {[i \in 1..(MaxItems + 1) |-> [content |-> 1, user_id |-> 1, metadata |-> "None"]]}

\* class BatchMemoryInput: List[MemoryInput], min_items=1, max_items=50
BatchMemoryInput(batch) ==
    /\ Len(batch) >= MinItems
    /\ Len(batch) <= MaxItems
    /\ \A i \in 1..Len(batch) : MemoryInput(batch[i])

RECURSIVE batch_each_aborts(_, _, _, _, _, _, _)
\* (variant: the loop ends at the first item the library raises on)
batch_each_aborts(memories, i, st, memory_ids, errors, cs, failing) ==
    IF i > Len(memories)
    THEN [store |-> st, memory_ids |-> memory_ids, errors |-> errors, calls |-> cs]
    ELSE LET memory == memories[i] IN
         IF i \in failing
         THEN [store |-> st, memory_ids |-> memory_ids,
               errors |-> Append(errors, [index |-> i - 1]),
               calls |-> Append(cs, AddCall(memory, FALSE))]
         ELSE batch_each_aborts(memories, i + 1, LibAdd(st, NextId(st), memory.user_id),
                                Append(memory_ids, NextId(st)), errors,
                                Append(cs, AddCall(memory, TRUE)), failing)

RECURSIVE batch_each(_, _, _, _, _, _, _)
\* the loop `for i, memory in enumerate(batch.memories):`; the library
\* raises on the items whose (1-based) position is in failing
batch_each(memories, i, st, memory_ids, errors, cs, failing) ==
    IF i > Len(memories)
    THEN [store |-> st, memory_ids |-> memory_ids, errors |-> errors, calls |-> cs]
    ELSE LET memory == memories[i] IN
         IF i \in failing
         THEN batch_each(memories, i + 1, st, memory_ids,
                         Append(errors, [index |-> i - 1]),
                         Append(cs, AddCall(memory, FALSE)), failing)
         ELSE batch_each(memories, i + 1, LibAdd(st, NextId(st), memory.user_id),
                         Append(memory_ids, NextId(st)), errors,
                         Append(cs, AddCall(memory, TRUE)), failing)

add_memories_batch(batch) ==
    LET r == [op |-> "batch", batch |-> batch] IN
    /\ phase = "serving"
    /\ IF ~BatchMemoryInput(batch) THEN Reject("batch", r)
       ELSE IF not_memory_instance THEN Unavailable("batch", r)
       ELSE \E failing \in SUBSET (1..Len(batch)) :
            LET out == batch_each(batch, 1, store, <<>>, <<>>, <<>>, failing) IN
            /\ Len(out.store) <= MaxStore      \* a full store refuses the record
            /\ req' = r
            /\ calls' = out.calls
            /\ fetched' = <<>>
            /\ store' = out.store
            /\ Respond("batch", 200,
                       [success |-> Len(out.errors) = 0,
                        memory_ids |-> out.memory_ids,
                        errors |-> out.errors])    \* an empty list is sent as null
            /\ UNCHANGED <<phase, memory_instance, initOutcome, writes>>

Next ==
    \/ \E o \in InitOutcomes : lifespan_startup(o)
    \/ lifespan_shutdown
    \/ health_check
    \/ \E m \in MemoryInputs : add_memory(m)
    \/ \E s \in SearchInputs : search_memory(s)
    \/ \E u \in Users, l \in ListLimits : get_memories(u, l)
    \/ \E id \in MemoryIds : delete_memory(id)
    \/ \E u \in Users : delete_user_memories(u)
    \/ \E b \in BatchInputs : add_memories_batch(b)

Spec == Init /\ [][Next]_vars

\* ---- properties ----------------------------------------------------------
MemoryOps == {"add", "search", "list", "delete", "delete_user", "batch"}

\* the request body passed validation
Validated(r) ==
    CASE r.op = "add"    -> MemoryInput(r.memory)
      [] r.op = "search" -> SearchInput(r.search)
      [] r.op = "batch"  -> BatchMemoryInput(r.batch)
      [] OTHER           -> TRUE

\* the calls of cs that raised
Failed(cs) == {i \in 1..Len(cs) : ~cs[i].ok}

RECURSIVE SelectSeqIdx(_, _)
\* the subsequence of s at the indices in the set idx, in index order
SelectSeqIdx(s, idx) ==
    IF s = <<>> THEN <<>>
    ELSE LET n == Len(s)
             front == SelectSeqIdx(SubSeq(s, 1, n - 1), idx)
         IN IF n \in idx THEN Append(front, s[n]) ELSE front

\* C1: while the adapter is unset, each of the six memory operations answers
\* a validated request with 503 and makes no library call.
C1_UnsetAnswers503 ==
    (phase = "serving" /\ memory_instance = "None"
       /\ resp.op \in MemoryOps /\ Validated(req))
    => (resp.status = 503 /\ calls = <<>> /\ fetched = <<>>)

C1_Witness ==
    /\ phase = "serving" /\ memory_instance = "None"
    /\ resp.op = "batch" /\ Validated(req) /\ Len(req.batch) = MaxBatch
    /\ resp.status = 503

\* C2: health always answers 200; it says degraded/disconnected exactly when
\* the adapter is unset and healthy/connected exactly when it is set,
\* whatever the store holds and whatever happened before.
C2_HealthReflectsAdapter ==
    (phase = "serving" /\ resp.op = "health")
    => /\ resp.status = 200
       /\ (memory_instance = "None"
             <=> (resp.body.status = "degraded" /\ resp.body.qdrant = "disconnected"))
       /\ (memory_instance # "None"
             <=> (resp.body.status = "healthy" /\ resp.body.qdrant = "connected"))

C2_Witness ==
    /\ phase = "serving" /\ resp.op = "health"
    /\ resp.body.status = "healthy" /\ Len(store) > 0

\* C3: with the adapter set, a batch-add of N items calls the library once
\* per item, in index order, and never stops early; with F the set of items
\* the library failed on, the response carries N - |F| ids in the order of
\* the successful items, |F| errors whose index fields are exactly F, and
\* success is true iff F is empty.
C3_BatchAttemptsEveryItem ==
    (phase = "serving" /\ memory_instance # "None"
       /\ resp.op = "batch" /\ Validated(req))
    => LET batch == req.batch
           N == Len(batch)
           F == Failed(calls)
           ids == resp.body.memory_ids
           errors == resp.body.errors
           good == SelectSeqIdx(batch, (1..N) \ F)
           added == SubSeq(store, Len(store) - Len(ids) + 1, Len(store))
       IN /\ resp.status = 200
          /\ N >= MinItems /\ N <= MaxItems
          /\ Len(calls) = N
          /\ \A i \in 1..N : calls[i] = AddCall(batch[i], i \notin F)
          /\ Len(ids) = N - Cardinality(F)
          /\ Len(good) = Len(ids)
          /\ \A j \in 1..Len(ids) :
                added[j] = [id |-> ids[j], user |-> good[j].user_id]
          /\ Len(errors) = Cardinality(F)
          /\ {errors[j].index : j \in 1..Len(errors)} = {i - 1 : i \in F}
          /\ (resp.body.success <=> F = {})

C3_Witness ==
    /\ resp.op = "batch" /\ resp.status = 200
    /\ Len(req.batch) = 2
    /\ Failed(calls) = {1}
    /\ Len(resp.body.memory_ids) = 1
    /\ resp.body.errors = <<[index |-> 0]>>

\* C4: a raw search result in mapping, object or bare-string form with the
\* same content is normalised to the same item: its text, its score (0.0
\* when missing) and its metadata (absent when missing).
C4_SameItemForAllShapes ==
    (resp.op = "search" /\ resp.status = 200)
    => \A i \in 1..Len(fetched) :
          fetched[i].memory # Missing
          => resp.body.results[i] =
                [memory   |-> fetched[i].memory,
                 score    |-> IF fetched[i].score = Missing THEN "0.0" ELSE fetched[i].score,
                 metadata |-> IF fetched[i].metadata = Missing THEN "None"
                              ELSE fetched[i].metadata]

\* C5: a successful search with limit L returns at most L items, and a count
\* of at most L, whatever the library returned.
C5_CountAtMostLimit ==
    (resp.op = "search" /\ resp.status = 200)
    => /\ Len(resp.body.results) <= req.search.limit
       /\ resp.body.count <= req.search.limit

\* C6: an add (single or batch item) with content longer than 10000 or
\* user_id longer than 100 is rejected with a client error, and no library
\* add call is ever made with such a content or user_id.
TooLong(m) == m.content > MaxContentLen \/ m.user_id > MaxUserIdLen

C6_OversizeRejected ==
    /\ \A i \in 1..Len(calls) :
          calls[i].method = "add"
          => (calls[i].content <= MaxContentLen /\ calls[i].user_id <= MaxUserIdLen)
    /\ (req.op = "add" /\ TooLong(req.memory)) => resp.status = 422
    /\ (req.op = "batch" /\ \E i \in 1..Len(req.batch) : TooLong(req.batch[i]))
          => resp.status = 422

\* C7: with the adapter set and no library call failing, delete-all-for-user
\* answers success with deleted_count = the number of library delete calls =
\* the number of fetched records with a non-empty id; with nothing fetched
\* (empty list, empty results, unrecognised answer) it deletes nothing and
\* answers deleted_count = 0.
C7_DeletedCountIsDeleteCalls ==
    (phase = "serving" /\ memory_instance # "None"
       /\ resp.op = "delete_user" /\ Failed(calls) = {})
    => LET memories == IF calls[1].form \in {"list", "dict"} THEN fetched ELSE <<>>
           withId == {i \in 1..Len(memories) : memories[i].id # NoId}
           deletes == {i \in 1..Len(calls) : calls[i].method = "delete"}
       IN /\ resp.status = 200
          /\ resp.body.success
          /\ calls[1].method = "get_all"
          /\ deletes = 2..Len(calls)
          /\ resp.body.deleted_count = Cardinality(deletes)
          /\ resp.body.deleted_count = Cardinality(withId)
          /\ (memories = <<>> => (resp.body.deleted_count = 0 /\ Len(calls) = 1))

C7_Witness ==
    /\ resp.op = "delete_user" /\ resp.status = 200
    /\ Len(fetched) = 2 /\ calls[1].form = "dict"
    /\ fetched[1].id = NoId /\ fetched[2].id # NoId
    /\ resp.body.deleted_count = 1

\* C8: the adapter reference is unset at start; it becomes set only in the
\* startup step of a successful initialisation, becomes unset again only in
\* the shutdown step, no request step writes it, and it is written at most
\* twice in all.
C8_AdapterWrittenOnlyByLifecycle ==
    /\ memory_instance = "None"
    /\ writes = 0
    /\ [][ /\ writes' <= 2
           /\ (memory_instance' # memory_instance \/ writes' # writes)
              => \/ /\ phase = "starting" /\ phase' = "serving"
                    /\ initOutcome' = "ok"
                    /\ memory_instance = "None" /\ memory_instance' = "Memory"
                    /\ writes = 0 /\ writes' = 1
                 \/ /\ phase = "serving" /\ phase' = "stopped"
                    /\ memory_instance = "Memory" /\ memory_instance' = "None"
                    /\ writes = 1 /\ writes' = 2
           /\ (memory_instance' = "Memory") => (initOutcome' = "ok")
         ]_vars

C8_Witness ==
    /\ phase = "stopped" /\ initOutcome = "ok"
    /\ memory_instance = "None" /\ writes = 2
    /\ resp.op = "add" /\ resp.status = 200

\* C9: after a connection or configuration failure of the initialisation
\* the adapter is unset and the process serves requests, health saying
\* degraded; after an import failure, and only then, startup is aborted and
\* no request is ever served.
C9_FailOpen ==
    /\ initOutcome = "error"
          => /\ phase \in {"serving", "stopped"}
             /\ memory_instance = "None"
             /\ writes = 0
             /\ resp.op = "health"
                   => (resp.status = 200 /\ resp.body.status = "degraded")
    /\ initOutcome = "import_error"
          => (phase = "aborted" /\ memory_instance = "None" /\ req = NoRequest)
    /\ phase = "aborted" => initOutcome = "import_error"
    /\ req # NoRequest => initOutcome \in {"ok", "error"}

C9_Witness ==
    /\ initOutcome = "error" /\ phase = "serving"
    /\ resp.op = "health" /\ resp.status = 200 /\ resp.body.status = "degraded"

\* C10: with the adapter set, a library exception during add, search, list
\* or delete-one gives a 500, and the request made exactly one library call:
\* the failed one, not repeated.
SingleCallOps == {"add", "search", "list", "delete"}

C10_FailureIs500NoRetry ==
    (resp.op \in SingleCallOps /\ (Failed(calls) # {} \/ resp.status = 500))
    => /\ resp.status = 500
       /\ Len(calls) = 1
       /\ ~calls[1].ok

C10_Witness ==
    /\ memory_instance # "None"
    /\ resp.op = "add" /\ resp.status = 500
    /\ Len(store) > 0
    /\ calls = <<AddCall(req.memory, FALSE)>>

\* the records of user u in st, in store order
RecordsOf(st, u) == SelectSeq(st, LAMBDA r : r.user = u)

\* the step is a delete-all-for-user request that reached the library
DeleteUserStep ==
    /\ phase = "serving" /\ phase' = "serving"
    /\ memory_instance # "None"
    /\ resp'.op = "delete_user"
    /\ Len(calls') >= 1

\* C11: in delete-all-for-user, when the k-th library delete raises, the
\* request answers 500 with no deleted_count, no delete is attempted after
\* the failing one, and the k-1 deletions made before it stay: the store
\* after the request is the store before it minus those k-1 records, so the
\* user keeps exactly the records not yet deleted (from the failing one on,
\* when every record was fetched and carries an id).
C11_PartialDeleteNotRolledBack ==
    [][ (DeleteUserStep /\ calls'[1].ok /\ Failed(calls') # {})
        => LET cs == calls'
               u == req'.user_id
               k == Len(cs) - 1
               memories == IF cs[1].form \in {"list", "dict"} THEN fetched' ELSE <<>>
               withId == SelectSeq(memories, LAMBDA r : r.id # NoId)
               deletedIds == {cs[i].memory_id : i \in 2..k}
               kept == SelectSeq(store, LAMBDA r : r.id \notin deletedIds)
           IN /\ resp'.status = 500
              /\ resp'.body = NoBody
              /\ k >= 1 /\ k <= Len(withId)
              /\ Failed(cs) = {k + 1}
              /\ \A i \in 1..k : cs[i + 1] = DeleteCall(withId[i].id, i < k)
              /\ Cardinality(deletedIds) = k - 1
              /\ store' = kept
              /\ Len(store') = Len(store) - (k - 1)
              /\ (memories = RecordsOf(store, u) /\ withId = memories)
                    => RecordsOf(store', u) = SubSeq(memories, k, Len(memories))
      ]_vars

C11_Witness ==
    /\ resp.op = "delete_user" /\ resp.status = 500
    /\ Len(fetched) = 2
    /\ Len(calls) = 3 /\ calls[2].ok /\ ~calls[3].ok
    /\ RecordsOf(store, req.user_id) = <<fetched[2]>>

\* C12: when delete-all-for-user has answered success for a user, every
\* stored record carries an id, and the list request for the same user comes
\* next (the library answering both fetches in the same form), that list
\* returns zero memories, however many memories the user held.
C12_ListEmptyAfterDeleteAll ==
    [][ ( /\ phase = "serving" /\ phase' = "serving"
          /\ resp.op = "delete_user" /\ resp.status = 200
          /\ resp'.op = "list" /\ resp'.status = 200
          /\ req'.user_id = req.user_id
          /\ calls'[1].form = calls[1].form
          /\ \A i \in 1..Len(store) : store[i].id # NoId )
        => (resp'.body.count = 0 /\ resp'.body.memories = <<>>)
      ]_vars
====
